---------------------------- MODULE Spec2Model ----------------------------
(***************************************************************************)
(* A model of crates/fuzz/src/lib.rs: the differential fuzzing harness     *)
(* (Config::set_fuel, Config::run_one, Config::run) and the stack-typed    *)
(* WAT synthesizer (WatGen).                                               *)
(*                                                                         *)
(* The specifications share the variables:                                 *)
(*   Spec     the harness: Config, run() and the run_one pipeline, with    *)
(*            the external tools as nondeterministic outcomes;             *)
(*   FairSpec Spec, with run() never stopping in the middle of its loop;   *)
(*   GenSpec  WatGen::generate, step by step, over an RNG whose stream is  *)
(*            an arbitrary but fixed function of the seed.                 *)
(* In Spec the text of a program is named by the generator, seed and fuel  *)
(* it was generated from; GenSpec produces the text of WatGen line by line.*)
(***************************************************************************)
EXTENDS Integers, Sequences, FiniteSets, TLC

(***************************************************************************)
(* Bounds of the model.                                                    *)
(***************************************************************************)
\* seeds are 0..MaxSeed (the code draws a u64)
MaxSeed == 1
\* set_fuel is called with arguments 0..MaxSetFuel
MaxSetFuel == 11
\* the clock read at line 157 is at most MaxClock seconds after `start`
MaxClock == 6
\* WatGen::generate is called with fuel 0..MaxGenFuel
MaxGenFuel == 3
\* WasmOptTtf::generate is called with fuel 0..MaxTtfFuel
MaxTtfFuel == 2
\* WasmOptTtf::generate makes at most MaxAttempts attempts
MaxAttempts == 2
\* the bytes the RNG yields are 0..MaxByte (the code draws a u8)
MaxByte == 1

(***************************************************************************)
(* Program constants.                                                      *)
(***************************************************************************)
DEFAULT_FUEL == 64
DEFAULT_TIMEOUT_SECS == 5

Seeds == 0..MaxSeed

Min(a, b) == IF a < b THEN a ELSE b

(***************************************************************************)
(* The generators (impl TestCaseGenerator for WatGen / WasmOptTtf).        *)
(***************************************************************************)
Generators == {"WatGen", "WasmOptTtf"}

NAME(g) == g

\* a generator table in which every generator asks for interpretation
SHOULD_INTERPRET_always(g) == TRUE

SHOULD_INTERPRET(g) == g = "WatGen"

VARIABLES
    \* ---- Config<G> and the frame of Config::run
    G,            \* the generator the Config is instantiated with
    fuel,         \* Config.fuel
    timeout,      \* Config.timeout
    scratch,      \* content of the scratch file Config.scratch
    pc,           \* position of the harness
    seed,         \* run(): seed
    failing,      \* run(): failing
    start,        \* run(): start
    now,          \* the last reading of time::Instant::now()
    wat,          \* run(): wat, run_one's argument
    wasm,         \* run_one(): wasm
    expected,     \* run_one(): expected
    walrus_wasm,  \* run_one(): walrus_wasm
    actual,       \* run_one(): actual
    result,       \* what run_one returned (with the context run() adds)
    ret,          \* what run() returned
    mode,         \* how the external tools behave during this run
    \* ---- WatGen
    gpc,          \* position of the generator
    gseed,        \* generate(): seed
    gfuel,        \* generate(): fuel
    rng,          \* WatGen.rng
    gwat,         \* WatGen.wat, a sequence of lines
    stack,        \* gen_instructions(): stack
    iter,         \* gen_instructions(): iterations of the main loop done
    arity,        \* op(): arity
    stream,       \* the values the RNG seeded with stream.seed yields
    prev,         \* the generation completed just before this one, when it
                  \* had the same seed: its seed, fuel and text, and how
                  \* many lines of the text were there when its main loop ended
    main_len,     \* the lines of gwat when the main loop ended (before the
                  \* cleanup), 0 until then
    \* ---- WasmOptTtf (with gpc, gseed, gfuel, rng, stream and gwat)
    input,        \* generate(): input, the bytes drawn in this iteration
    attempts,     \* iterations of generate()'s loop begun
    verdict       \* what wat2wasm said of the text of this iteration

hvars == <<G, fuel, timeout, scratch, pc, seed, failing, start, now, wat, wasm,
           expected, walrus_wasm, actual, result, ret, mode>>

gvars == <<gpc, gseed, gfuel, rng, gwat, stack, iter, arity, stream, prev,
           main_len>>

tvars == <<input, attempts, verdict>>

vars == <<hvars, gvars, tvars>>

(***************************************************************************)
(* Values.                                                                 *)
(***************************************************************************)
\* Result<(), failure::Error>
Ok == [tag |-> "Ok", kind |-> "none", generator |-> "none",
       wat |-> <<>>, expected |-> "", actual |-> "", context |-> <<>>]

\* an error of one of the tools, wrapped by .context(..) or returned as is
ToolError(kind) ==
    [tag |-> "Err", kind |-> kind, generator |-> "none",
     wat |-> <<>>, expected |-> "", actual |-> "", context |-> <<>>]

\* Err(FailingTestCase { generator, wat, expected, actual }.into())
FailingTestCase(generator, w, e, a) ==
    [tag |-> "Err", kind |-> "FailingTestCase", generator |-> generator,
     wat |-> w, expected |-> e, actual |-> a, context |-> <<>>]

\* .with_context(|_| format!("wat = {}", wat)): Ok stays Ok, Err gains context
with_context(r, w) ==
    IF r.tag = "Ok" THEN r ELSE [r EXCEPT !.context = Append(@, <<"wat = ", w>>)]

ToolErrorKinds ==
    {"scratch_write", "wat2wasm", "wasm_interp", "walrus_parse", "walrus_emit"}

\* the traces wasm-interp can print
Traces == {"", "called host print"}

\* The text G::generate(seed, fuel) returns, named by what determines it.
generated_text(g, s, f) == <<g, s, f>>

NoWat == <<>>
NoWasm == [of |-> <<>>, by |-> "none"]
EmptyFile == [kind |-> "empty", payload |-> <<>>]
TextFile(w) == [kind |-> "text", payload |-> w]
BinaryFile(b) == [kind |-> "binary", payload |-> <<b.of, b.by>>]

\* what the scratch file holds after fs::write failed: the old content when
\* the file could not be opened, nothing when the write broke off
FailedWrite(old) == {old, EmptyFile}

(***************************************************************************)
(* The environment: mode fixes how the external tools behave in a run.     *)
(*   "free"     any tool may fail, traces are arbitrary                    *)
(*   "diverge"  no tool fails and the two traces always differ             *)
(*   "agree"    no tool fails and the two traces are always equal          *)
(***************************************************************************)
Modes == {"free", "diverge", "agree"}

ToolsMayFail == mode = "free"

ActualTraces(e) ==
    CASE mode = "diverge" -> Traces \ {e}
      [] mode = "agree" -> {e}
      [] OTHER -> Traces

(***************************************************************************)
(* Config::new and Config::set_fuel                                        *)
(***************************************************************************)
InRun == {"gen_wat", "wat2wasm", "wat2wasm_tool", "interp_expected",
          "interp_expected_tool", "round_trip", "interp_actual",
          "interp_actual_tool", "compare", "match"}

AtRest == {"idle", "returned"}

HInit ==
    /\ G \in Generators
    /\ fuel = DEFAULT_FUEL
    /\ timeout = DEFAULT_TIMEOUT_SECS
    /\ scratch = EmptyFile
    /\ pc = "idle"
    /\ seed = 0
    /\ failing = Ok
    /\ start = 0
    /\ now = 0
    /\ wat = NoWat
    /\ wasm = NoWasm
    /\ expected = ""
    /\ walrus_wasm = NoWasm
    /\ actual = ""
    /\ result = Ok
    /\ ret = Ok
    /\ mode = "free"

\* set_fuel without its assertion
set_fuel_assert_missing(f) == TRUE

\* assert!(fuel > 0)
set_fuel_assert(f) == f > 0

set_fuel(f) ==
    /\ pc \in AtRest
    /\ IF set_fuel_assert(f)
         THEN /\ fuel' = f
              /\ pc' = pc
         ELSE /\ fuel' = fuel
              /\ pc' = "panicked"
    /\ UNCHANGED <<G, timeout, scratch, seed, failing, start, now, wat, wasm,
                   expected, walrus_wasm, actual, result, ret, mode>>
    /\ UNCHANGED <<gvars, tvars>>

\* run() that starts from the default fuel whatever the Config holds
run_enter_resets_fuel(s, m) ==
    /\ pc \in AtRest
    /\ m = "diverge" => SHOULD_INTERPRET(G)
    /\ mode' = m
    /\ now' = 0
    /\ start' = now'
    /\ seed' = s
    /\ failing' = Ok
    /\ pc' = "gen_wat"
    /\ wat' = NoWat
    /\ wasm' = NoWasm
    /\ expected' = ""
    /\ walrus_wasm' = NoWasm
    /\ actual' = ""
    /\ result' = Ok
    /\ ret' = Ok
    /\ fuel' = DEFAULT_FUEL
    /\ UNCHANGED <<G, timeout, scratch>>
    /\ UNCHANGED <<gvars, tvars>>

(***************************************************************************)
(* Config::run, lines 137-140: the frame is set up and the loop entered.   *)
(* Instants are only ever subtracted, so each run counts from 0.           *)
(***************************************************************************)
run_enter(s, m) ==
    /\ pc \in AtRest
    /\ m = "diverge" => SHOULD_INTERPRET(G)
    /\ mode' = m
    /\ now' = 0
    /\ start' = now'
    /\ seed' = s
    /\ failing' = Ok
    /\ pc' = "gen_wat"
    /\ wat' = NoWat
    /\ wasm' = NoWasm
    /\ expected' = ""
    /\ walrus_wasm' = NoWasm
    /\ actual' = ""
    /\ result' = Ok
    /\ ret' = Ok
    /\ UNCHANGED <<G, fuel, timeout, scratch>>
    /\ UNCHANGED <<gvars, tvars>>

\* let wat = self.gen_wat(seed);
gen_wat ==
    /\ pc = "gen_wat"
    /\ wat' = generated_text(G, seed, fuel)
    /\ pc' = "wat2wasm"
    /\ UNCHANGED <<G, fuel, timeout, scratch, seed, failing, start, now, wasm,
                   expected, walrus_wasm, actual, result, ret, mode>>
    /\ UNCHANGED <<gvars, tvars>>

(***************************************************************************)
(* Config::run_one, one action per `?`, the write of the scratch file and  *)
(* the tool that reads it taken as two steps.  An Err leaves run_one at    *)
(* once and reaches the match of run() with the context run() adds.        *)
(***************************************************************************)
run_one_returns(r) ==
    /\ result' = with_context(r, wat)
    /\ pc' = "match"

\* Config::wat2wasm, line 88: fs::write(self.scratch.path(), wat)
wat2wasm_write ==
    /\ pc = "wat2wasm"
    /\ \/ /\ ToolsMayFail
          /\ scratch' \in FailedWrite(scratch)
          /\ run_one_returns(ToolError("scratch_write"))
       \/ /\ scratch' = TextFile(wat)
          /\ pc' = "wat2wasm_tool"
          /\ UNCHANGED result
    /\ UNCHANGED <<G, fuel, timeout, seed, failing, start, now, wat, wasm,
                   expected, walrus_wasm, actual, ret, mode>>
    /\ UNCHANGED <<gvars, tvars>>

\* Config::wat2wasm, line 89: the assembler reads the scratch file
wat2wasm_tool ==
    /\ pc = "wat2wasm_tool"
    /\ \/ /\ ToolsMayFail \/ scratch.kind # "text"
          /\ run_one_returns(ToolError("wat2wasm"))
          /\ UNCHANGED wasm
       \/ /\ scratch.kind = "text"
          /\ wasm' = [of |-> scratch.payload, by |-> "wat2wasm"]
          /\ pc' = "interp_expected"
          /\ UNCHANGED result
    /\ UNCHANGED <<G, fuel, timeout, scratch, seed, failing, start, now, wat,
                   expected, walrus_wasm, actual, ret, mode>>
    /\ UNCHANGED <<gvars, tvars>>

\* let wasm = self.wat2wasm(&wat)?;
run_one_wat2wasm == wat2wasm_write \/ wat2wasm_tool

\* interp that invokes the interpreter without writing the binary first
interp_write_skipped(binary, toolPc, isExpected, nextPc) ==
    IF SHOULD_INTERPRET(G)
      THEN /\ pc' = toolPc
           /\ UNCHANGED <<scratch, result, expected, actual>>
      ELSE /\ IF isExpected
                THEN expected' = "" /\ UNCHANGED actual
                ELSE actual' = "" /\ UNCHANGED expected
           /\ pc' = nextPc
           /\ UNCHANGED <<scratch, result>>

\* Config::interp(binary), lines 93-94 and 96-98: the binary is written to
\* the scratch file, or nothing is done and the trace is empty
interp_write(binary, toolPc, isExpected, nextPc) ==
    IF SHOULD_INTERPRET(G)
      THEN \/ /\ ToolsMayFail
              /\ scratch' \in FailedWrite(scratch)
              /\ run_one_returns(ToolError("scratch_write"))
              /\ UNCHANGED <<expected, actual>>
           \/ /\ scratch' = BinaryFile(binary)
              /\ pc' = toolPc
              /\ UNCHANGED <<result, expected, actual>>
      ELSE /\ IF isExpected
                THEN expected' = "" /\ UNCHANGED actual
                ELSE actual' = "" /\ UNCHANGED expected
           /\ pc' = nextPc
           /\ UNCHANGED <<scratch, result>>

\* Config::interp, line 95: the interpreter reads the scratch file; the
\* trace lands in expected (first call) or actual
interp_tool(traces, isExpected, nextPc) ==
    \/ /\ ToolsMayFail \/ scratch.kind # "binary"
       /\ run_one_returns(ToolError("wasm_interp"))
       /\ UNCHANGED <<expected, actual>>
    \/ /\ scratch.kind = "binary"
       /\ \E t \in traces :
             IF isExpected
               THEN expected' = t /\ UNCHANGED actual
               ELSE actual' = t /\ UNCHANGED expected
       /\ pc' = nextPc
       /\ UNCHANGED result

\* let expected = self.interp(&wasm)?;
run_one_interp_expected ==
    \/ /\ pc = "interp_expected"
       /\ interp_write(wasm, "interp_expected_tool", TRUE, "round_trip")
       /\ UNCHANGED <<G, fuel, timeout, seed, failing, start, now, wat, wasm,
                      walrus_wasm, ret, mode>>
       /\ UNCHANGED <<gvars, tvars>>
    \/ /\ pc = "interp_expected_tool"
       /\ interp_tool(Traces, TRUE, "round_trip")
       /\ UNCHANGED <<G, fuel, timeout, scratch, seed, failing, start, now,
                      wat, wasm, walrus_wasm, ret, mode>>
       /\ UNCHANGED <<gvars, tvars>>

\* let walrus_wasm = self.round_trip_through_walrus(&wasm)?;
run_one_round_trip ==
    /\ pc = "round_trip"
    /\ \/ /\ ToolsMayFail
          /\ \E k \in {"walrus_parse", "walrus_emit"} :
                run_one_returns(ToolError(k))
          /\ UNCHANGED walrus_wasm
       \/ /\ walrus_wasm' = [of |-> wasm.of, by |-> "walrus"]
          /\ pc' = "interp_actual"
          /\ UNCHANGED result
    /\ UNCHANGED <<G, fuel, timeout, scratch, seed, failing, start, now, wat,
                   wasm, expected, actual, ret, mode>>
    /\ UNCHANGED <<gvars, tvars>>

\* let actual = self.interp(&walrus_wasm)?;
run_one_interp_actual ==
    \/ /\ pc = "interp_actual"
       /\ interp_write(walrus_wasm, "interp_actual_tool", FALSE, "compare")
       /\ UNCHANGED <<G, fuel, timeout, seed, failing, start, now, wat, wasm,
                      walrus_wasm, ret, mode>>
       /\ UNCHANGED <<gvars, tvars>>
    \/ /\ pc = "interp_actual_tool"
       /\ interp_tool(ActualTraces(expected), FALSE, "compare")
       /\ UNCHANGED <<G, fuel, timeout, scratch, seed, failing, start, now,
                      wat, wasm, walrus_wasm, ret, mode>>
       /\ UNCHANGED <<gvars, tvars>>

\* the two traces stored the wrong way round
compare_swapped(w, e, a) ==
    IF e = a THEN Ok ELSE FailingTestCase(NAME(G), w, a, e)

\* if expected == actual { return Ok(()); } Err(FailingTestCase {..}.into())
compare(w, e, a) ==
    IF e = a THEN Ok ELSE FailingTestCase(NAME(G), w, e, a)

run_one_compare ==
    /\ pc = "compare"
    /\ run_one_returns(compare(wat, expected, actual))
    /\ UNCHANGED <<G, fuel, timeout, scratch, seed, failing, start, now, wat,
                   wasm, expected, walrus_wasm, actual, ret, mode>>
    /\ UNCHANGED <<gvars, tvars>>

(***************************************************************************)
(* Config::run, the match on run_one's result.                             *)
(***************************************************************************)
\* the locals of one iteration are dropped when it ends
drop_locals ==
    /\ wat' = NoWat
    /\ wasm' = NoWasm
    /\ expected' = ""
    /\ walrus_wasm' = NoWasm
    /\ actual' = ""
    /\ result' = Ok

\* Ok arm that looks at the clock before it looks at the held failure
run_match_ok_timeout_first(t, s) ==
    /\ pc = "match"
    /\ result.tag = "Ok"
    /\ now' = t
    /\ IF now' - start > timeout
         THEN /\ IF failing.tag = "Ok"
                   THEN ret' = Ok /\ pc' = "returned"
                   ELSE ret' = ret /\ pc' = "panicked"
              /\ UNCHANGED seed
         ELSE IF failing.tag = "Err"
                THEN /\ ret' = failing
                     /\ pc' = "returned"
                     /\ UNCHANGED seed
                ELSE /\ seed' = s
                     /\ pc' = "gen_wat"
                     /\ UNCHANGED ret
    /\ drop_locals
    /\ UNCHANGED <<G, fuel, timeout, scratch, failing, start, mode>>
    /\ UNCHANGED <<gvars, tvars>>

\* Ok arm that takes the duration the wrong way round (it is never positive)
run_match_ok_reversed_clock(t, s) ==
    /\ pc = "match"
    /\ result.tag = "Ok"
    /\ IF failing.tag = "Err"
         THEN /\ ret' = failing
              /\ pc' = "returned"
              /\ UNCHANGED <<now, seed>>
         ELSE /\ now' = t
              /\ IF start - now' > timeout
                   THEN /\ ret' = Ok
                        /\ pc' = "returned"
                        /\ UNCHANGED seed
                   ELSE /\ seed' = s
                        /\ pc' = "gen_wat"
                        /\ UNCHANGED ret
    /\ drop_locals
    /\ UNCHANGED <<G, fuel, timeout, scratch, failing, start, mode>>
    /\ UNCHANGED <<gvars, tvars>>

\* Ok(()) => { .. }   (t is what Instant::now() reads at line 157; the
\* assert!(failing.is_ok()) of line 158 panics when it fails)
run_match_ok(t, s) ==
    /\ pc = "match"
    /\ result.tag = "Ok"
    /\ IF failing.tag = "Err"
         THEN /\ ret' = failing
              /\ pc' = "returned"
              /\ UNCHANGED <<now, seed>>
         ELSE /\ now' = t
              /\ IF now' - start > timeout
                   THEN /\ IF failing.tag = "Ok"
                             THEN ret' = Ok /\ pc' = "returned"
                             ELSE ret' = ret /\ pc' = "panicked"
                        /\ UNCHANGED seed
                   ELSE /\ seed' = s
                        /\ pc' = "gen_wat"
                        /\ UNCHANGED ret
    /\ drop_locals
    /\ UNCHANGED <<G, fuel, timeout, scratch, failing, start, mode>>
    /\ UNCHANGED <<gvars, tvars>>

\* a decay that always takes at least one unit of fuel
fuel_decay_at_least_one(f) == f - (IF f \div 10 > 1 THEN f \div 10 ELSE 1)

\* self.fuel -= self.fuel / 10
fuel_decay(f) == f - (f \div 10)

\* Err arm that hands a tool's error straight to the caller and shrinks
\* divergences only
run_match_err_propagates ==
    /\ pc = "match"
    /\ result.tag = "Err"
    /\ IF result.kind = "FailingTestCase"
         THEN /\ failing' = result
              /\ IF fuel > 1
                   THEN /\ fuel' = fuel_decay(fuel)
                        /\ pc' = "gen_wat"
                        /\ UNCHANGED ret
                   ELSE /\ ret' = failing'
                        /\ pc' = "returned"
                        /\ UNCHANGED fuel
         ELSE /\ ret' = result
              /\ pc' = "returned"
              /\ UNCHANGED <<failing, fuel>>
    /\ drop_locals
    /\ UNCHANGED <<G, timeout, scratch, seed, start, now, mode>>
    /\ UNCHANGED <<gvars, tvars>>

\* Err arm that draws a new seed for the next attempt
run_match_err_reseeds ==
    /\ pc = "match"
    /\ result.tag = "Err"
    /\ failing' = result
    /\ \E s \in Seeds : seed' = s
    /\ IF fuel > 1
         THEN /\ fuel' = fuel_decay(fuel)
              /\ pc' = "gen_wat"
              /\ UNCHANGED ret
         ELSE /\ ret' = failing'
              /\ pc' = "returned"
              /\ UNCHANGED fuel
    /\ drop_locals
    /\ UNCHANGED <<G, timeout, scratch, start, now, mode>>
    /\ UNCHANGED <<gvars, tvars>>

\* Err arm that keeps the first failure instead of the latest
run_match_err_keeps_first ==
    /\ pc = "match"
    /\ result.tag = "Err"
    /\ failing' = IF failing.tag = "Err" THEN failing ELSE result
    /\ IF fuel > 1
         THEN /\ fuel' = fuel_decay(fuel)
              /\ pc' = "gen_wat"
              /\ UNCHANGED ret
         ELSE /\ ret' = failing'
              /\ pc' = "returned"
              /\ UNCHANGED fuel
    /\ drop_locals
    /\ UNCHANGED <<G, timeout, scratch, seed, start, now, mode>>
    /\ UNCHANGED <<gvars, tvars>>

\* Err(e) => { .. }
run_match_err ==
    /\ pc = "match"
    /\ result.tag = "Err"
    /\ failing' = result
    /\ IF fuel > 1
         THEN /\ fuel' = fuel_decay(fuel)
              /\ pc' = "gen_wat"
              /\ UNCHANGED ret
         ELSE /\ ret' = failing'
              /\ pc' = "returned"
              /\ UNCHANGED fuel
    /\ drop_locals
    /\ UNCHANGED <<G, timeout, scratch, seed, start, now, mode>>
    /\ UNCHANGED <<gvars, tvars>>

(***************************************************************************)
(* The RNG.  SmallRng is a deterministic generator: the values it yields   *)
(* are a function of the seed and of how many were drawn.  The function is *)
(* not part of this code, so the model leaves it arbitrary: `stream` holds *)
(* the values the RNG of seed stream.seed has yielded so far, a value is   *)
(* chosen freely the first time a position is drawn and is the same at     *)
(* every later draw of that position.                                      *)
(***************************************************************************)
\* rand::rngs::SmallRng::seed_from_u64(seed)
seed_from_u64(s) == [seed |-> s, pos |-> 0]

\* the stream that belongs to RNG state r: kept when r has the seed of the
\* stream on record, started anew otherwise
stream_of(r) ==
    IF r.seed = stream.seed THEN stream.values ELSE <<>>

\* a draw state: the position of the RNG and the values known so far
DrawState(r) == [pos |-> r.pos, values |-> stream_of(r)]

\* the results a draw of one of n values can have in draw state d
Drawn(d, n) ==
    IF d.pos < Len(d.values) THEN {d.values[d.pos + 1] % n} ELSE 0..(n - 1)

\* the draw state after value v was drawn
Advance(d, v) ==
    [pos |-> d.pos + 1,
     values |-> IF d.pos < Len(d.values) THEN d.values ELSE Append(d.values, v)]

\* rng.gen_range(low, high): the values it can return
gen_range(d, low, high) == {low + v : v \in Drawn(d, high - low)}

\* rng.gen::<i32>(): the 32-bit integers the model draws from
I32Samples == <<-1073741824, 1073741824>>

(***************************************************************************)
(* WatGen: the text is a sequence of lines, a line the operator followed   *)
(* by its immediates.                                                      *)
(***************************************************************************)
\* WatGen::prefix
prefix(w) ==
    w \o << <<"(module">>,
            <<"(import \"host\" \"print\" (func (param i32) (result i32)))">>,
            <<"(func (export \"$f\")">> >>

\* WatGen::suffix
suffix(w) == Append(w, <<"))">>)

PrefixLen == Len(prefix(<<>>))

\* WatGen::instr_imm
instr_imm(w, operator, immediates) == Append(w, <<operator>> \o immediates)

\* WatGen::instr
instr(w, operator) == instr_imm(w, operator, <<>>)

\* no generation on record (fuel 0 never yields a text)
NoPrev == [seed |-> 0, fuel |-> 0, wat |-> <<>>, main |-> 0]

GInit ==
    /\ gpc = "idle"
    /\ gseed = 0
    /\ gfuel = 0
    /\ rng = seed_from_u64(0)
    /\ gwat = <<>>
    /\ stack = <<>>
    /\ iter = 0
    /\ arity = 0
    /\ stream = [seed |-> 0, values |-> <<>>]
    /\ prev = NoPrev
    /\ main_len = 0

\* WasmOptTtf::generate has not been called
TInit ==
    /\ input = <<>>
    /\ attempts = 0
    /\ verdict = "none"

\* the RNG moves to draw state d
rng_becomes(d) ==
    /\ rng' = [rng EXCEPT !.pos = d.pos]
    /\ stream' = [seed |-> rng.seed, values |-> d.values]

\* generate that goes on with the RNG of the call before
WatGen_generate_keeps_rng(s, f) ==
    /\ gpc \in {"idle", "done"}
    /\ prev' = IF gpc = "done" /\ gseed = s
                 THEN [seed |-> gseed, fuel |-> gfuel, wat |-> gwat,
                       main |-> main_len]
                 ELSE NoPrev
    /\ main_len' = 0
    /\ gseed' = s
    /\ gfuel' = f
    /\ gwat' = prefix(<<>>)
    /\ gpc' = "gen_instructions"
    /\ UNCHANGED <<rng, stack, iter, arity, stream>>
    /\ UNCHANGED <<hvars, tvars>>

\* generate that seeds the RNG from the seed and the fuel together
WatGen_generate_seed_mixes_fuel(s, f) ==
    /\ gpc \in {"idle", "done"}
    /\ prev' = IF gpc = "done" /\ gseed = s
                 THEN [seed |-> gseed, fuel |-> gfuel, wat |-> gwat,
                       main |-> main_len]
                 ELSE NoPrev
    /\ main_len' = 0
    /\ gseed' = s
    /\ gfuel' = f
    /\ rng' = seed_from_u64((s + f) % (MaxSeed + 1))
    /\ gwat' = prefix(<<>>)
    /\ gpc' = "gen_instructions"
    /\ UNCHANGED <<stack, iter, arity, stream>>
    /\ UNCHANGED <<hvars, tvars>>

\* WatGen::generate, lines 263-266: a new WatGen, then g.prefix()
WatGen_generate(s, f) ==
    /\ gpc \in {"idle", "done"}
    /\ prev' = IF gpc = "done" /\ gseed = s
                 THEN [seed |-> gseed, fuel |-> gfuel, wat |-> gwat,
                       main |-> main_len]
                 ELSE NoPrev
    /\ main_len' = 0
    /\ gseed' = s
    /\ gfuel' = f
    /\ rng' = seed_from_u64(s)
    /\ gwat' = prefix(<<>>)
    /\ gpc' = "gen_instructions"
    /\ UNCHANGED <<stack, iter, arity, stream>>
    /\ UNCHANGED <<hvars, tvars>>

\* gen_instructions, lines 289-291
gen_instructions_enter ==
    /\ gpc = "gen_instructions"
    /\ IF gfuel > 0
         THEN /\ stack' = <<>>
              /\ iter' = 0
              /\ gpc' = "loop"
         ELSE /\ gpc' = "panicked"
              /\ UNCHANGED <<stack, iter>>
    /\ UNCHANGED <<gseed, gfuel, rng, gwat, arity, stream, prev, main_len>>
    /\ UNCHANGED <<hvars, tvars>>

\* the bound of the arity draw, one too high
arity_bound_one_more(len) == Min(3, len + 2)

\* cmp::min(3, stack.len() + 1)
arity_bound(len) == Min(3, len + 1)

\* op, line 327: let arity = self.rng.gen_range(0, cmp::min(3, stack.len() + 1));
op_draw ==
    /\ gpc = "loop"
    /\ iter < gfuel
    /\ LET d == DrawState(rng)
       IN  \E a \in gen_range(d, 0, arity_bound(Len(stack))) :
              /\ arity' = a
              /\ rng_becomes(Advance(d, a))
    /\ gpc' = "op"
    /\ UNCHANGED <<gseed, gfuel, gwat, stack, iter, prev, main_len>>
    /\ UNCHANGED <<hvars, tvars>>

\* stack.pop(): the stack without its last element
pop(st) == SubSeq(st, 1, Len(st) - 1)

\* WatGen::op_0
op_0(st) ==
    LET d == DrawState(rng)
    IN  \E c \in gen_range(d, 0, 2) :
           LET d1 == Advance(d, c)
           IN  IF c = 0
                 THEN \E i \in Drawn(d1, Len(I32Samples)) :
                         /\ gwat' = instr_imm(gwat, "i32.const",
                                              <<ToString(I32Samples[i + 1])>>)
                         /\ stack' = Append(st, "I32")
                         /\ rng_becomes(Advance(d1, i))
                 ELSE /\ gwat' = instr(gwat, "nop")
                      /\ stack' = st
                      /\ rng_becomes(d1)

\* op_1 that forgets to push the result of i32.popcnt
op_1_no_push(st) ==
    LET d == DrawState(rng)
    IN  \E c \in gen_range(d, 0, 2) :
           /\ IF c = 0
                THEN gwat' = instr(gwat, "drop")
                ELSE gwat' = instr(gwat, "i32.popcnt")
           /\ stack' = st
           /\ rng_becomes(Advance(d, c))

\* WatGen::op_1
op_1(st) ==
    LET d == DrawState(rng)
    IN  \E c \in gen_range(d, 0, 2) :
           /\ IF c = 0
                THEN /\ gwat' = instr(gwat, "drop")
                     /\ stack' = st
                ELSE /\ gwat' = instr(gwat, "i32.popcnt")
                     /\ stack' = Append(st, "I32")
           /\ rng_becomes(Advance(d, c))

\* WatGen::op_2
op_2(st) ==
    LET d == DrawState(rng)
    IN  \E c \in gen_range(d, 0, 2) :
           /\ IF c = 0
                THEN gwat' = instr(gwat, "i32.add")
                ELSE gwat' = instr(gwat, "i32.mul")
           /\ stack' = Append(st, "I32")
           /\ rng_becomes(Advance(d, c))

\* op, lines 328-333: match arity { .. }; unwrap() of an empty pop and
\* unreachable!() panic
op_match ==
    /\ gpc = "op"
    /\ IF arity > 2 \/ arity > Len(stack)
         THEN /\ gpc' = "panicked"
              /\ UNCHANGED <<gwat, stack, rng, stream>>
         ELSE /\ CASE arity = 0 -> op_0(stack)
                   [] arity = 1 -> op_1(pop(stack))
                   [] arity = 2 -> op_2(pop(pop(stack)))
              /\ gpc' = "call"
    /\ UNCHANGED <<gseed, gfuel, iter, arity, prev, main_len>>
    /\ UNCHANGED <<hvars, tvars>>

\* loop body that never calls the import
loop_call_never ==
    /\ gpc = "call"
    /\ gwat' = gwat
    /\ iter' = iter + 1
    /\ gpc' = "loop"
    /\ UNCHANGED <<gseed, gfuel, rng, stack, arity, stream, prev, main_len>>
    /\ UNCHANGED <<hvars, tvars>>

\* loop body that calls the import whatever the stack holds
loop_call_always ==
    /\ gpc = "call"
    /\ gwat' = instr(gwat, "call 0")
    /\ iter' = iter + 1
    /\ gpc' = "loop"
    /\ UNCHANGED <<gseed, gfuel, rng, stack, arity, stream, prev, main_len>>
    /\ UNCHANGED <<hvars, tvars>>

\* gen_instructions, lines 295-297, and the end of one iteration
loop_call ==
    /\ gpc = "call"
    /\ gwat' = IF stack # <<>> THEN instr(gwat, "call 0") ELSE gwat
    /\ iter' = iter + 1
    /\ gpc' = "loop"
    /\ UNCHANGED <<gseed, gfuel, rng, stack, arity, stream, prev, main_len>>
    /\ UNCHANGED <<hvars, tvars>>

RECURSIVE cleanup_lines(_, _)
\* for _ in stack { self.instr("call 0"); self.instr("drop"); }
cleanup_lines(w, n) ==
    IF n = 0 THEN w
    ELSE cleanup_lines(instr(instr(w, "call 0"), "drop"), n - 1)

\* gen_instructions, lines 300-303: the loop consumes the stack
cleanup ==
    /\ gpc = "loop"
    /\ iter = gfuel
    /\ gwat' = cleanup_lines(gwat, Len(stack))
    /\ stack' = <<>>
    /\ gpc' = "suffix"
    /\ main_len' = Len(gwat)
    /\ UNCHANGED <<gseed, gfuel, rng, iter, arity, stream, prev>>
    /\ UNCHANGED <<hvars, tvars>>

\* WatGen::generate, lines 268-269: g.suffix(); g.wat
WatGen_return ==
    /\ gpc = "suffix"
    /\ gwat' = suffix(gwat)
    /\ gpc' = "done"
    /\ UNCHANGED <<gseed, gfuel, rng, stack, iter, arity, stream, prev, main_len>>
    /\ UNCHANGED <<hvars, tvars>>

GenNext ==
    \/ \E s \in Seeds : \E f \in 0..MaxGenFuel : WatGen_generate(s, f)
    \/ gen_instructions_enter
    \/ op_draw
    \/ op_match
    \/ loop_call
    \/ cleanup
    \/ WatGen_return

GenInit == HInit /\ G = "WatGen" /\ GInit /\ TInit

GenSpec == GenInit /\ [][GenNext]_vars

(***************************************************************************)
(* WasmOptTtf::generate, lines 386-414.  wasm-opt and wat2wasm are         *)
(* external: the text wasm-opt makes of an input is named by the input,    *)
(* wat2wasm accepts or rejects it, and any of the unwraps may panic.       *)
(***************************************************************************)
\* the text wasm-opt -ttf --emit-text makes of the bytes
translated(bytes) == <<"wasm-opt -ttf", bytes>>

\* line 387: let mut rng = SmallRng::seed_from_u64(seed); the loop is entered
WasmOptTtf_generate(s, f) ==
    /\ gpc \in {"idle", "done"}
    /\ gseed' = s
    /\ gfuel' = f
    /\ rng' = seed_from_u64(s)
    /\ gwat' = <<>>
    /\ input' = <<>>
    /\ attempts' = 1
    /\ verdict' = "none"
    /\ gpc' = "ttf_draw"
    /\ UNCHANGED <<stack, iter, arity, stream, prev, main_len>>
    /\ UNCHANGED hvars

\* line 390: one rng.gen() of (0..fuel).map(|_| rng.gen()).collect()
ttf_draw_byte ==
    /\ gpc = "ttf_draw"
    /\ Len(input) < gfuel
    /\ \E b \in Drawn(DrawState(rng), MaxByte + 1) :
          /\ input' = Append(input, b)
          /\ rng_becomes(Advance(DrawState(rng), b))
    /\ UNCHANGED <<gpc, gseed, gfuel, gwat, stack, iter, arity, prev, main_len>>
    /\ UNCHANGED <<attempts, verdict>>
    /\ UNCHANGED hvars

\* lines 392-404: the bytes are written to a file and wasm-opt turns them
\* into text
ttf_wasm_opt ==
    /\ gpc = "ttf_draw"
    /\ Len(input) = gfuel
    /\ \/ /\ gwat' = translated(input)
          /\ gpc' = "ttf_check"
       \/ /\ gpc' = "panicked"
          /\ UNCHANGED gwat
    /\ verdict' = "none"
    /\ UNCHANGED <<gseed, gfuel, rng, stack, iter, arity, stream, prev, main_len>>
    /\ UNCHANGED <<input, attempts>>
    /\ UNCHANGED hvars

\* a check whose retry starts again from the seed
ttf_check_reseeds ==
    /\ gpc = "ttf_check"
    /\ \/ /\ verdict' = "accepted"
          /\ gpc' = "done"
          /\ UNCHANGED <<rng, input, attempts>>
       \/ /\ attempts < MaxAttempts
          /\ verdict' = "rejected"
          /\ gpc' = "ttf_draw"
          /\ rng' = seed_from_u64(gseed)
          /\ input' = <<>>
          /\ attempts' = attempts + 1
       \/ /\ gpc' = "panicked"
          /\ UNCHANGED <<rng, input, attempts, verdict>>
    /\ UNCHANGED <<gseed, gfuel, gwat, stack, iter, arity, stream, prev, main_len>>
    /\ UNCHANGED hvars

\* lines 405-412: wat2wasm accepts the text and it is returned, or rejects
\* it and the loop goes round
ttf_check ==
    /\ gpc = "ttf_check"
    /\ \/ /\ verdict' = "accepted"
          /\ gpc' = "done"
          /\ UNCHANGED <<input, attempts>>
       \/ /\ attempts < MaxAttempts
          /\ verdict' = "rejected"
          /\ gpc' = "ttf_draw"
          /\ input' = <<>>
          /\ attempts' = attempts + 1
       \/ /\ gpc' = "panicked"
          /\ UNCHANGED <<input, attempts, verdict>>
    /\ UNCHANGED <<gseed, gfuel, rng, gwat, stack, iter, arity, stream, prev,
                   main_len>>
    /\ UNCHANGED hvars

TtfNext ==
    \/ \E s \in Seeds : \E f \in 0..MaxTtfFuel : WasmOptTtf_generate(s, f)
    \/ ttf_draw_byte
    \/ ttf_wasm_opt
    \/ ttf_check

TtfInit == HInit /\ G = "WasmOptTtf" /\ GInit /\ TInit

TtfSpec == TtfInit /\ [][TtfNext]_vars

(***************************************************************************)
(* The harness.                                                            *)
(***************************************************************************)
Init == HInit /\ GInit /\ TInit

RunStep ==
    \/ gen_wat
    \/ run_one_wat2wasm
    \/ run_one_interp_expected
    \/ run_one_round_trip
    \/ run_one_interp_actual
    \/ run_one_compare
    \/ \E t \in now..MaxClock : \E s \in Seeds : run_match_ok(t, s)
    \/ run_match_err

Next ==
    \/ \E f \in 0..MaxSetFuel : set_fuel(f)
    \/ \E s \in Seeds : \E m \in Modes : run_enter(s, m)
    \/ RunStep

Spec == Init /\ [][Next]_vars

\* once called, run() keeps executing: it is the only thread
FairSpec == Spec /\ WF_vars(RunStep)

\* a reading of the clock at line 157 that is later than the reading before
ClockAdvances ==
    \E t \in now..MaxClock : \E s \in Seeds : run_match_ok(t, s) /\ now' > now

\* run() keeps executing and wall-clock time keeps advancing: of the readings
\* of the clock, again and again one is later than the one before
TimeSpec == Spec /\ WF_vars(RunStep) /\ SF_vars(ClockAdvances)

(***************************************************************************)
(* Readers of the values the claims speak about.                           *)
(***************************************************************************)
\* the text named in the context run() attached to error e
context_wat(e) == e.context[Len(e.context)][2]

\* the seed and the fuel a text was generated from
wat_seed(w) == w[2]
wat_fuel(w) == w[3]

\* the instructions of the function body of text w (the suffix counted out
\* once it is there)
Body(w) ==
    SubSeq(w, PrefixLen + 1, IF gpc = "done" THEN Len(w) - 1 ELSE Len(w))

\* the values an instruction takes from and leaves on the wasm stack
Pops(line) ==
    CASE line[1] \in {"drop", "i32.popcnt", "call 0"} -> 1
      [] line[1] \in {"i32.add", "i32.mul"} -> 2
      [] OTHER -> 0

Pushes(line) ==
    CASE line[1] \in {"i32.const", "i32.popcnt", "call 0", "i32.add", "i32.mul"} -> 1
      [] OTHER -> 0

RECURSIVE MachineDepth(_, _, _)
\* the depth of the wasm stack after instructions i.. of b are run at depth d,
\* or -1 when one of them finds too few values
MachineDepth(b, i, d) ==
    IF i > Len(b) THEN d
    ELSE IF d < Pops(b[i]) THEN -1
    ELSE MachineDepth(b, i + 1, d - Pops(b[i]) + Pushes(b[i]))

(***************************************************************************)
(* C1.  Started with fuel = 10 on a pipeline whose every run_one reports a *)
(* divergence, run() terminates with fuel = 1 and returns the failing test *)
(* case generated at fuel = 1.                                             *)
(***************************************************************************)
C1_ShrinkTerminatesAtOne ==
    (pc = "gen_wat" /\ mode = "diverge" /\ failing.tag = "Ok" /\ fuel = 10)
        ~> (/\ pc = "returned"
            /\ fuel = 1
            /\ ret.kind = "FailingTestCase"
            /\ wat_fuel(ret.wat) = 1)

(***************************************************************************)
(* C2.  A failing iteration at fuel > 1 leaves fuel strictly smaller and   *)
(* goes on; a failing iteration at fuel = 1 returns at once.               *)
(***************************************************************************)
C2_FuelStrictlyDecreases ==
    [][(pc = "match" /\ result.tag = "Err")
         => IF fuel > 1
              THEN fuel' < fuel /\ pc' = "gen_wat"
              ELSE fuel' = fuel /\ pc' = "returned"]_vars

C4_FuelPositive == fuel > 0

\* the decay has acted: a failure at the default fuel, and set_fuel(0) after
\* the run has panicked
C4_Witness ==
    /\ pc = "panicked"
    /\ failing.tag = "Err"
    /\ wat_fuel(context_wat(failing)) = DEFAULT_FUEL
    /\ fuel = DEFAULT_FUEL - (DEFAULT_FUEL \div 10)

(***************************************************************************)
(* C5.  At every step of gen_instructions with fuel >= 1 the arity drawn   *)
(* is at most 2 and at most the depth of the abstract stack; drop and      *)
(* i32.popcnt are emitted at depth >= 1 only, i32.add and i32.mul at depth *)
(* >= 2 only, and no pop of an empty stack (a panic) happens.              *)
(***************************************************************************)
C5_ArityWithinStack ==
    /\ [](gpc = "panicked" => gfuel = 0)
    /\ [](gpc = "op" => arity <= 2 /\ arity <= Len(stack))
    /\ [][(gpc = "op" /\ gpc' = "call")
            => LET line == gwat'[Len(gwat')]
               IN  /\ Len(gwat') = Len(gwat) + 1
                   /\ line[1] \in {"drop", "i32.popcnt"} => Len(stack) >= 1
                   /\ line[1] \in {"i32.add", "i32.mul"} => Len(stack) >= 2]_vars

\* arity 2 was drawn on a stack of exactly two values
C5_Witness == gpc = "op" /\ arity = 2 /\ Len(stack) = 2

(***************************************************************************)
(* C6.  Run with their wasm stack effects, the emitted instructions never  *)
(* underflow the machine stack; between main-loop iterations its depth is  *)
(* the depth of the abstract stack; after the cleanup it is 0.             *)
(***************************************************************************)
C6_MachineStackBalanced ==
    gpc \in {"loop", "op", "call", "suffix", "done"}
        => LET depth == MachineDepth(Body(gwat), 1, 0)
           IN  /\ depth >= 0
               /\ gpc = "loop" => depth = Len(stack)
               /\ gpc \in {"suffix", "done"} => depth = 0

\* a finished program that holds a binary operator and a cleanup
C6_Witness ==
    /\ gpc = "done"
    /\ \E i \in 1..Len(gwat) : gwat[i] = <<"i32.add">>
    /\ gwat[Len(gwat) - 1] = <<"drop">>
    /\ gwat[Len(gwat) - 2] = <<"call 0">>

(***************************************************************************)
(* C7.  Two generations with the same seed and the same fuel yield the     *)
(* same text.                                                              *)
(***************************************************************************)
C7_Deterministic ==
    (gpc = "done" /\ prev.seed = gseed /\ prev.fuel = gfuel)
        => gwat = prev.wat

\* a second generation from the same seed and fuel has finished, with at
\* least two instructions in the body
C7_Witness ==
    /\ gpc = "done"
    /\ prev.seed = gseed
    /\ prev.fuel = gfuel
    /\ gfuel >= 2
    /\ \E i \in 1..Len(gwat) : gwat[i][1] = "i32.const"

(***************************************************************************)
(* C8.  Within run() the seed changes only in the Ok arm of an iteration   *)
(* that succeeded with no failure held; while a failure is held, the seed  *)
(* of every iteration is the seed of the held failure.                     *)
(***************************************************************************)
C8_SeedFixedWhileShrinking ==
    /\ [][(pc \in InRun /\ seed' # seed)
            => (pc = "match" /\ result.tag = "Ok" /\ failing.tag = "Ok")]_vars
    /\ []((pc \in InRun /\ failing.tag = "Err")
            => /\ wat_seed(context_wat(failing)) = seed
               /\ wat # NoWat => wat_seed(wat) = seed)

\* a second failing iteration with the seed of the first and a smaller fuel
C8_Witness ==
    /\ pc = "match"
    /\ failing.tag = "Err"
    /\ result.tag = "Err"
    /\ seed = 1
    /\ wat_seed(context_wat(failing)) = wat_seed(wat)
    /\ wat_fuel(context_wat(failing)) > wat_fuel(wat)

(***************************************************************************)
(* C9.  run() holds one failure, every failing iteration overwrites it and *)
(* nothing else changes it; an iteration that succeeds while a failure is  *)
(* held returns the held failure; the held failure is that of the latest   *)
(* failing iteration, with the seed of the run and the lowest fuel at      *)
(* which a failure was seen (fuel never grows during a run).               *)
(***************************************************************************)
C9_HeldFailureIsLatest ==
    /\ [][(pc = "match" /\ result.tag = "Err") => failing' = result]_vars
    /\ [][(pc = "match" /\ result.tag = "Ok" /\ failing.tag = "Err")
            => (pc' = "returned" /\ ret' = failing /\ failing' = failing)]_vars
    /\ [][(pc \in InRun /\ failing' # failing)
            => (pc = "match" /\ result.tag = "Err")]_vars
    /\ [][(pc \in InRun) => (fuel' <= fuel)]_vars
    /\ []((pc \in InRun /\ failing.tag = "Err")
            => /\ wat_seed(context_wat(failing)) = seed
               /\ wat_fuel(context_wat(failing)) >= fuel)

\* run() has returned, above fuel 1 and so from the Ok arm, a failure seen at
\* a fuel that only the decay of an earlier failure produces
C9_Witness ==
    /\ pc = "returned"
    /\ ret.tag = "Err"
    /\ ret = failing
    /\ fuel > 1
    /\ wat_fuel(context_wat(ret)) < DEFAULT_FUEL
    /\ wat_fuel(context_wat(ret)) > MaxSetFuel

(***************************************************************************)
(* C10.  With every tool succeeding, run_one returns Ok exactly when the   *)
(* two traces are the same string; otherwise it returns a FailingTestCase  *)
(* with the input text, the two traces as observed and the NAME of the     *)
(* generator.                                                              *)
(***************************************************************************)
C10_OracleExact ==
    (pc = "match" /\ result.kind \notin ToolErrorKinds)
        => /\ result.tag = "Ok" <=> expected = actual
           /\ result.tag = "Err"
                => /\ result.kind = "FailingTestCase"
                   /\ result.wat = wat
                   /\ result.expected = expected
                   /\ result.actual = actual
                   /\ result.expected # result.actual
                   /\ result.generator = NAME(G)

\* a divergence was reported: nothing printed before, something after
C10_Witness ==
    /\ pc = "match"
    /\ result.kind = "FailingTestCase"
    /\ result.expected = ""
    /\ result.actual # ""

(***************************************************************************)
(* C11.  With WasmOptTtf, whose SHOULD_INTERPRET is false, the interpreter *)
(* is never invoked (no binary is ever written to the scratch file for it *)
(* and no error of it is ever seen), both traces are the empty string, and *)
(* run_one never reports a divergence: it fails only in Config::wat2wasm   *)
(* or in the round trip.                                                   *)
(***************************************************************************)
C11_NoInterpretationNoDivergence ==
    G = "WasmOptTtf"
        => /\ scratch.kind # "binary"
           /\ expected = ""
           /\ actual = ""
           /\ \A r \in {result, failing, ret} :
                 r.tag = "Err"
                    => r.kind \in {"scratch_write", "wat2wasm",
                                   "walrus_parse", "walrus_emit"}

\* a WasmOptTtf program went through the whole of run_one
C11_Witness ==
    /\ G = "WasmOptTtf"
    /\ pc = "match"
    /\ result.tag = "Ok"
    /\ walrus_wasm.by = "walrus"

(***************************************************************************)
(* C12.  run() returns Ok only when no iteration of the call failed: a     *)
(* held failure stays held until run() returns, a run with a held failure  *)
(* never returns Ok, the clock is read only while no failure is held, and  *)
(* the assertion of the timeout path never fails (run() never panics).     *)
(***************************************************************************)
C12_SuccessOnlyWithoutFailure ==
    /\ [][(pc \in InRun /\ failing.tag = "Err")
            => /\ failing'.tag = "Err"
               /\ now' = now
               /\ pc' = "returned" => ret'.tag = "Err"]_vars
    /\ [][(pc \in InRun) => (pc' # "panicked")]_vars
    /\ [][(pc \in InRun /\ pc' = "returned" /\ ret'.tag = "Ok")
            => (failing.tag = "Ok" /\ now' - start > timeout)]_vars

\* run() has returned Ok on the timeout path, with tools that were free to
\* fail
C12_Witness ==
    /\ pc = "returned"
    /\ ret.tag = "Ok"
    /\ failing.tag = "Ok"
    /\ mode = "free"
    /\ now - start > timeout

(***************************************************************************)
(* C13.  When every run_one succeeds and wall-clock time keeps advancing,  *)
(* run() eventually returns Ok.  It returns at the first iteration whose   *)
(* reading of the clock is more than the timeout after the start, and only *)
(* ever from the match on the result of an iteration, so never before one  *)
(* iteration has run.                                                      *)
(***************************************************************************)
C13_EventuallyReturnsOk ==
    /\ (pc \in InRun /\ mode = "agree") ~> (pc = "returned" /\ ret.tag = "Ok")
    /\ [][(pc = "match" /\ result.tag = "Ok" /\ failing.tag = "Ok")
            => IF now' - start > timeout
                 THEN pc' = "returned" /\ ret' = Ok
                 ELSE pc' = "gen_wat"]_vars
    /\ [][(pc \in InRun /\ pc' = "returned") => (pc = "match")]_vars

\* a run whose every run_one succeeded has returned Ok after the timeout
C13_Witness ==
    /\ pc = "returned"
    /\ ret.tag = "Ok"
    /\ mode = "agree"
    /\ now - start > timeout

\* the first iteration drew arity 0, then the constant
FirstDrawsConst ==
    /\ Len(stream.values) >= 2
    /\ stream.values[1] = 0
    /\ stream.values[2] = 0

\* every iteration of the finished generation drew arity 0, then nop
AllDrawsNop ==
    /\ gpc = "done"
    /\ rng.pos = 2 * gfuel
    /\ \A k \in 1..gfuel :
          stream.values[2 * k - 1] = 0 /\ stream.values[2 * k] = 1

(***************************************************************************)
(* C14 as stated.  With fuel = 1 and the one draw an arity 0 that selects  *)
(* the constant, the body is exactly i32.const N, call 0, drop.            *)
(***************************************************************************)
C14_ConstCallDrop ==
    (gpc = "done" /\ gfuel = 1 /\ FirstDrawsConst)
        => /\ Len(Body(gwat)) = 3
           /\ Body(gwat)[2] = <<"call 0">>
           /\ Body(gwat)[3] = <<"drop">>

(***************************************************************************)
(* C14 as amended.  With fuel = 1 and the one draw an arity 0 that selects *)
(* the constant, the body is exactly i32.const N, the call 0 of the main   *)
(* loop (the stack is not empty after the constant), then the call 0 and   *)
(* the drop of the cleanup.                                                *)
(***************************************************************************)
C14_ConstCallCallDrop ==
    (gpc = "done" /\ gfuel = 1 /\ FirstDrawsConst)
        => /\ Len(Body(gwat)) = 4
           /\ Len(Body(gwat)[1]) = 2
           /\ Body(gwat)[1][2] \in {ToString(I32Samples[i]) :
                                      i \in 1..Len(I32Samples)}
           /\ Body(gwat)[2] = <<"call 0">>
           /\ Body(gwat)[3] = <<"call 0">>
           /\ Body(gwat)[4] = <<"drop">>

\* a generation with fuel 1 that pushed a constant has finished
C14_Witness ==
    /\ gpc = "done"
    /\ gfuel = 1
    /\ FirstDrawsConst
    /\ Body(gwat)[1][1] = "i32.const"

(***************************************************************************)
(* C15.  When each of the fuel iterations draws arity 0 and then nop, the  *)
(* body is exactly fuel nop instructions: no call 0 and no drop.           *)
(***************************************************************************)
C15_NopOnly ==
    AllDrawsNop
        => /\ Len(Body(gwat)) = gfuel
           /\ \A k \in 1..Len(Body(gwat)) : Body(gwat)[k] = <<"nop">>

\* a generation of at least two iterations, all of them nop, has finished
C15_Witness == AllDrawsNop /\ gfuel >= 2

\* the steps run_one can take from each of its positions, and the errors with
\* which it can leave from there
OrderOfSteps ==
    [wat2wasm             |-> [next |-> {"wat2wasm_tool"},
                               errs |-> {"scratch_write"}],
     wat2wasm_tool        |-> [next |-> {"interp_expected"},
                               errs |-> {"wat2wasm"}],
     interp_expected      |-> [next |-> {"interp_expected_tool", "round_trip"},
                               errs |-> {"scratch_write"}],
     interp_expected_tool |-> [next |-> {"round_trip"},
                               errs |-> {"wasm_interp"}],
     round_trip           |-> [next |-> {"interp_actual"},
                               errs |-> {"walrus_parse", "walrus_emit"}],
     interp_actual        |-> [next |-> {"interp_actual_tool", "compare"},
                               errs |-> {"scratch_write"}],
     interp_actual_tool   |-> [next |-> {"compare"},
                               errs |-> {"wasm_interp"}],
     compare              |-> [next |-> {},
                               errs |-> {"FailingTestCase"}]]

(***************************************************************************)
(* C16.  run_one takes its steps in the order assemble, execute            *)
(* (expected), round trip, execute (actual), compare: a step either hands  *)
(* over to the next one or ends run_one with an error of its own, after    *)
(* which no later step has left a value; whenever the assembler or the     *)
(* interpreter is about to run, the scratch file holds what was written    *)
(* for it: the text, the assembled binary, the round-tripped binary.       *)
(***************************************************************************)
C16_PipelineInOrder ==
    /\ [][(pc \in DOMAIN OrderOfSteps)
            => \/ /\ pc' \in OrderOfSteps[pc].next
                  /\ result' = result
               \/ /\ pc' = "match"
                  /\ result'.kind \in OrderOfSteps[pc].errs \cup
                        (IF pc = "compare" THEN {"none"} ELSE {})
                  /\ pc \in {"wat2wasm", "wat2wasm_tool"} => wasm' = NoWasm
                  /\ pc # "compare" => (walrus_wasm' = walrus_wasm /\ actual' = "")
                  /\ pc \in {"wat2wasm", "wat2wasm_tool", "interp_expected",
                             "interp_expected_tool", "round_trip"}
                        => walrus_wasm' = NoWasm]_vars
    /\ [](pc = "wat2wasm_tool" => scratch = TextFile(wat))
    /\ [](pc = "interp_expected_tool"
            => /\ scratch = BinaryFile(wasm)
               /\ wasm = [of |-> wat, by |-> "wat2wasm"])
    /\ [](pc = "interp_actual_tool"
            => /\ scratch = BinaryFile(walrus_wasm)
               /\ walrus_wasm = [of |-> wat, by |-> "walrus"])

\* the interpreter is about to run the round-tripped binary of a program
\* whose first execution called the host
C16_Witness ==
    /\ pc = "interp_actual_tool"
    /\ scratch = BinaryFile(walrus_wasm)
    /\ walrus_wasm.by = "walrus"
    /\ expected = "called host print"

(***************************************************************************)
(* C17.  WasmOptTtf::generate returns only the text wat2wasm accepted in   *)
(* the iteration that returns: the text of the bytes of that iteration,    *)
(* which are the next fuel values of the one RNG stream of the seed (after *)
(* n iterations the RNG has yielded n * fuel values); a rejection is       *)
(* followed by a new iteration with the RNG left as it is, an acceptance   *)
(* by the return.                                                          *)
(***************************************************************************)
C17_ReturnsAcceptedText ==
    /\ [](gpc = "done"
            => /\ verdict = "accepted"
               /\ gwat = translated(input)
               /\ Len(input) = gfuel
               /\ rng = [seed |-> gseed, pos |-> attempts * gfuel]
               /\ stream.seed = gseed \/ gfuel = 0
               /\ \A i \in 1..gfuel :
                     input[i] = stream.values[(attempts - 1) * gfuel + i]
                                   % (MaxByte + 1))
    /\ [][(gpc = "ttf_check")
            => /\ verdict' = "accepted"
                    => (gpc' = "done" /\ gwat' = gwat /\ attempts' = attempts)
               /\ verdict' = "rejected"
                    => /\ gpc' = "ttf_draw"
                       /\ rng' = rng
                       /\ input' = <<>>
                       /\ attempts' = attempts + 1
               /\ gpc' = "done" => verdict' = "accepted"]_vars

\* the second attempt was accepted and returned, after a first of two bytes
\* was rejected
C17_Witness ==
    /\ gpc = "done"
    /\ verdict = "accepted"
    /\ attempts = 2
    /\ gfuel = 2
    /\ rng.pos = 4

C19_RunFrame ==
    /\ [][(pc \in InRun)
            => /\ fuel' <= fuel
               /\ fuel' # fuel
                    => /\ pc = "match"
                       /\ result.tag = "Err"
                       /\ failing'.tag = "Err"
               /\ timeout' = timeout
               /\ G' = G]_vars
    /\ [][(pc \in InRun /\ failing.tag = "Err")
            => /\ failing'.tag = "Err"
               /\ pc' = "returned" => ret'.tag = "Err"]_vars
    /\ [][(pc \in AtRest /\ pc' \in InRun)
            => (fuel' = fuel /\ timeout' = timeout /\ G' = G)]_vars
    /\ [](pc = "returned" /\ ret.tag = "Ok" => failing.tag = "Ok")

\* run() has returned a failure and left the fuel below that of the failure
\* it returned
C19_Witness ==
    /\ pc = "returned"
    /\ ret.tag = "Err"
    /\ fuel < wat_fuel(context_wat(ret))

(***************************************************************************)
(* C20.  Of two WatGen generations from one seed, the lines the main loop  *)
(* of the lower fuel emitted are the first lines of what the main loop of  *)
(* the higher fuel emitted; after its main loop a program holds only its   *)
(* own cleanup (call 0, drop for each value left) and the suffix.          *)
(***************************************************************************)
C20_LowerFuelIsPrefix ==
    /\ (gpc \in {"suffix", "done"} /\ prev.fuel >= 1 /\ prev.seed = gseed)
          => IF prev.fuel <= gfuel
               THEN /\ prev.main <= main_len
                    /\ SubSeq(prev.wat, 1, prev.main) = SubSeq(gwat, 1, prev.main)
               ELSE /\ main_len <= prev.main
                    /\ SubSeq(gwat, 1, main_len) = SubSeq(prev.wat, 1, main_len)
    /\ gpc = "done"
          => /\ Len(gwat) - 1 - main_len
                = 2 * MachineDepth(SubSeq(gwat, PrefixLen + 1, main_len), 1, 0)
             /\ \A k \in (main_len + 1)..(Len(gwat) - 1) :
                   gwat[k] = IF (k - main_len) % 2 = 1
                               THEN <<"call 0">> ELSE <<"drop">>

\* a generation has finished after one of the same seed and a lower fuel, the
\* main loop of which emitted at least two lines
C20_Witness ==
    /\ gpc = "done"
    /\ prev.seed = gseed
    /\ prev.fuel >= 1
    /\ prev.fuel < gfuel
    /\ prev.main >= PrefixLen + 2
    /\ main_len > prev.main

=============================================================================
